---------------------------- MODULE Spec2Model ----------------------------
(***************************************************************************)
(* Model of src/Array.h: template <typename T, size_t Capacity> class      *)
(* Array, a fixed-capacity sequence kept in an inline c-array.             *)
(*                                                                         *)
(* An object is the pair of its fields, m_elements (a function on          *)
(* 0 .. Capacity-1) and m_size.  Pointers into the c-array are modelled as *)
(* element offsets relative to m_elements, so begin() is offset 0 and      *)
(* end() is offset m_size.  assert() is the one of <assert.h> with NDEBUG  *)
(* not defined: a failed assertion terminates the program at that point,   *)
(* with the fields as they were when the assertion was evaluated.          *)
(* operator[] performs no check and is not among the modelled calls.       *)
(***************************************************************************)
EXTENDS Integers, Sequences, FiniteSets, TLC

\* Bounds of the model.
MaxCapacity == 3
MaxCopyCapacity == 2
MaxValue == 2
MaxSrcLen == 5

\* Width of size_t arithmetic (a 16 bit size_t, the narrowest the targets have).
SizeModulus == 65536

\* The value of a value-initialised T (m_elements[Capacity] = {}).
Default == 0

\* The null pointer, as an offset that is no offset into m_elements.
nullptr == -1

Values == 1 .. MaxValue
Instances == {"a", "b"}

VARIABLES
    Capacity,     \* the template argument, the same for every object of the type
    ctor,         \* per object: "none" before it is built, then "built", or "copy" for a copy
    m_elements,   \* per object: the c-array
    m_size,       \* per object: the used size
    status,       \* "running", or "aborted" once an assertion has failed
    ret,          \* with the call log: the element the last call read through at()/back()
    audit,        \* whether the full call log below is kept
    call,         \* the last call: its name, receiver and arguments
    pre_elements, \* the receiver's m_elements when the last call was made
    pre_size,     \* the receiver's m_size when the last call was made
    pushed,       \* per object: the values pushed since it was empty, while nothing else changed it
    cleared       \* per object: its size when clear() was called, if that was its last call

vars == <<Capacity, ctor, m_elements, m_size, status, ret, audit, call,
          pre_elements, pre_size, pushed, cleared>>

Slots == 0 .. (Capacity - 1)

\* The external ranges [first, last) handed to the bulk operations.
Range(start, n) == [i \in 1 .. n |-> ((start + i - 2) % MaxValue) + 1]
Sources == {Range(s, n) : s \in Values, n \in 0 .. MaxSrcLen}
CopySources == {Range(s, n) : s \in Values, n \in 0 .. (MaxCopyCapacity + 1)}

---------------------------------------------------------------------------
\* The member functions, on an object self = [m_elements, m_size, aborted].

Object(elements, used) ==
    [m_elements |-> elements, m_size |-> used, aborted |-> FALSE]

Fresh == Object([i \in Slots |-> Default], 0)

Abort(self) == [self EXCEPT !.aborted = TRUE]

size(self) == self.m_size

capacity(self) == Capacity

empty(self) == self.m_size = 0

begin(self) == 0

end(self) == self.m_size

\* The elements a traversal from begin() to end() yields, in order.
Traverse(self) == [i \in 1 .. (end(self) - begin(self)) |-> self.m_elements[begin(self) + i - 1]]

\* Helper::distance(first, last), converted to size_t.
distance(first, last) == (last - first) % SizeModulus

push_back_AssertOffByOne(self, element) ==
    IF ~(self.m_size <= Capacity) THEN Abort(self)
    ELSE [self EXCEPT !.m_elements = [self.m_elements EXCEPT ![self.m_size] = element],
                      !.m_size = self.m_size + 1]

push_back_AssertsAfterWrite(self, element) ==
    LET written == [self EXCEPT !.m_elements = [self.m_elements EXCEPT ![self.m_size] = element],
                                !.m_size = self.m_size + 1]
    IN  IF ~(written.m_size <= Capacity) THEN Abort(written) ELSE written

push_back_PreIncrement(self, element) ==
    IF ~(self.m_size < Capacity) THEN Abort(self)
    ELSE [self EXCEPT !.m_elements = [self.m_elements EXCEPT ![self.m_size + 1] = element],
                      !.m_size = self.m_size + 1]

push_back(self, element) ==
    IF ~(self.m_size < Capacity) THEN Abort(self)
    ELSE [self EXCEPT !.m_elements = [self.m_elements EXCEPT ![self.m_size] = element],
                      !.m_size = self.m_size + 1]

\* for (auto it = first; it != last; ++it) push_back(*it); position is not read.
RECURSIVE insert(_, _, _)
insert(self, position, source) ==
    IF source = <<>> THEN self
    ELSE LET pushedOne == push_back(self, Head(source))
         IN  IF pushedOne.aborted THEN pushedOne
             ELSE insert(pushedOne, position, Tail(source))

assign_ReplacesContents(self, source) ==
    insert([self EXCEPT !.m_size = 0], nullptr, source)

assign(self, source) == insert(self, nullptr, source)

\* Array(first, last) and Array(container): m_elements(), m_size(0U), insert(nullptr, ...).
construct(source) == insert(Fresh, nullptr, source)

copy_ForgetsSize(other) == Object(other.m_elements, 0)

\* The implicit copy constructor: memberwise copy of m_elements and m_size.
copy(other) == Object(other.m_elements, other.m_size)

\* for (size_t i = index; i < m_size - 1; ++i) m_elements[i] = m_elements[i + 1];
RECURSIVE shift(_, _, _)
shift(elements, i, used) ==
    IF i < used - 1
    THEN shift([elements EXCEPT ![i] = elements[i + 1]], i + 1, used)
    ELSE elements

erase_ShiftStartsLate(self, position) ==
    LET index == distance(begin(self), position)
    IN  IF index < self.m_size
        THEN [self EXCEPT !.m_elements = IF 1 < Capacity
                                         THEN shift(self.m_elements, index + 1, self.m_size)
                                         ELSE self.m_elements,
                          !.m_size = self.m_size - 1]
        ELSE self

erase_IndexOffByOne(self, position) ==
    LET index == distance(begin(self), position)
    IN  IF index <= self.m_size
        THEN [self EXCEPT !.m_elements = IF 1 < Capacity
                                         THEN shift(self.m_elements, index, self.m_size)
                                         ELSE self.m_elements,
                          !.m_size = self.m_size - 1]
        ELSE self

erase(self, position) ==
    LET index == distance(begin(self), position)
    IN  IF index < self.m_size
        THEN [self EXCEPT !.m_elements = IF 1 < Capacity
                                         THEN shift(self.m_elements, index, self.m_size)
                                         ELSE self.m_elements,
                          !.m_size = self.m_size - 1]
        ELSE self

\* at() and back() return a reference: the offset of the element, when they return.
Ref(self, offset) == [aborted |-> FALSE, offset |-> offset]

NoRef == [aborted |-> TRUE, offset |-> 0]

at_ChecksCapacity(self, index) ==
    IF ~(index < Capacity) THEN NoRef ELSE Ref(self, index)

at(self, index) ==
    IF ~(index < self.m_size) THEN NoRef ELSE Ref(self, index)

back(self) ==
    IF ~(self.m_size # 0) THEN NoRef ELSE Ref(self, self.m_size - 1)

clear_ComparesInsteadOfAssigns(self) == self

clear(self) == [self EXCEPT !.m_size = 0]

---------------------------------------------------------------------------
\* The program: calls on the objects of one Array type.

This(x) == Object(m_elements[x], m_size[x])

Alive(x) == ctor[x] # "none"

NoCall == [name |-> "none", self |-> "a", value |-> Default, index |-> 0,
           position |-> nullptr, source |-> <<>>, cleared |-> -1]

Call(name, x) == [NoCall EXCEPT !.name = name, !.self = x, !.cleared = cleared[x]]

\* The call log.  Without audit only the receiver and whether the call was a copy are kept.
Log(c, after) ==
    LET x == c.self
    IN  IF audit
        THEN /\ call' = c
             /\ pre_elements' = m_elements[x]
             /\ pre_size' = m_size[x]
             /\ cleared' = [cleared EXCEPT ![x] = IF c.name = "clear" /\ ~after.aborted
                                                   THEN m_size[x] ELSE -1]
             /\ pushed' = [pushed EXCEPT ![x] =
                    IF after.m_elements = m_elements[x] /\ after.m_size = m_size[x]
                    THEN pushed[x]
                    ELSE IF c.name = "push_back" /\ ~after.aborted
                         THEN IF pushed[x].valid
                              THEN [valid |-> TRUE, log |-> Append(pushed[x].log, c.value)]
                              ELSE pushed[x]
                    ELSE [valid |-> (~after.aborted /\ after.m_size = 0), log |-> <<>>]]
        ELSE /\ call' = [NoCall EXCEPT !.self = x,
                                       !.name = IF c.name = "copy" THEN "copy" ELSE "call"]
             /\ UNCHANGED <<pre_elements, pre_size, cleared, pushed>>

\* The receiver's fields after the call, and the end of the program on a failed assertion.
Commit(x, after) ==
    /\ m_elements' = [m_elements EXCEPT ![x] = after.m_elements]
    /\ m_size' = [m_size EXCEPT ![x] = after.m_size]
    /\ status' = IF after.aborted THEN "aborted" ELSE "running"
    /\ UNCHANGED <<Capacity, audit>>

DefaultConstruct(x) ==
    /\ status = "running" /\ ~Alive(x)
    /\ ctor' = [ctor EXCEPT ![x] = "built"]
    /\ Commit(x, Fresh)
    /\ Log(Call("Array", x), Fresh)
    /\ ret' = Default

RangeConstruct(x, source) ==
    /\ status = "running" /\ ~Alive(x)
    /\ ctor' = [ctor EXCEPT ![x] = "built"]
    /\ Commit(x, construct(source))
    /\ Log([Call("construct", x) EXCEPT !.source = source], construct(source))
    /\ ret' = Default

CopyConstruct(x, other) ==
    /\ status = "running" /\ ~Alive(x) /\ Alive(other)
    /\ ctor' = [ctor EXCEPT ![x] = "copy"]
    /\ Commit(x, copy(This(other)))
    /\ Log(Call("copy", x), copy(This(other)))
    /\ ret' = Default

Assign(x, source) ==
    /\ status = "running" /\ Alive(x)
    /\ Commit(x, assign(This(x), source))
    /\ Log([Call("assign", x) EXCEPT !.source = source], assign(This(x), source))
    /\ ret' = Default
    /\ UNCHANGED ctor

Insert(x, position, source) ==
    /\ status = "running" /\ Alive(x)
    /\ Commit(x, insert(This(x), position, source))
    /\ Log([Call("insert", x) EXCEPT !.position = position, !.source = source],
           insert(This(x), position, source))
    /\ ret' = Default
    /\ UNCHANGED ctor

PushBack(x, element) ==
    /\ status = "running" /\ Alive(x)
    /\ Commit(x, push_back(This(x), element))
    /\ Log([Call("push_back", x) EXCEPT !.value = element], push_back(This(x), element))
    /\ ret' = Default
    /\ UNCHANGED ctor

Erase(x, position) ==
    /\ status = "running" /\ Alive(x)
    /\ Commit(x, erase(This(x), position))
    /\ Log([Call("erase", x) EXCEPT !.position = position], erase(This(x), position))
    /\ ret' = Default
    /\ UNCHANGED ctor

Clear(x) ==
    /\ status = "running" /\ Alive(x)
    /\ Commit(x, clear(This(x)))
    /\ Log(Call("clear", x), clear(This(x)))
    /\ ret' = Default
    /\ UNCHANGED ctor

\* A read through the returned reference: v = array.at(index).
At(x, index) ==
    LET ref == at(This(x), index)
    IN  /\ status = "running" /\ Alive(x)
        /\ Commit(x, IF ref.aborted THEN Abort(This(x)) ELSE This(x))
        /\ ret' = IF ref.aborted \/ ~audit THEN Default ELSE m_elements[x][ref.offset]
        /\ Log([Call("at", x) EXCEPT !.index = index],
               IF ref.aborted THEN Abort(This(x)) ELSE This(x))
        /\ UNCHANGED ctor

\* A write through the returned reference: array.at(index) = element.
AtAssign(x, index, element) ==
    LET ref == at(This(x), index)
        after == IF ref.aborted THEN Abort(This(x))
                 ELSE [This(x) EXCEPT !.m_elements[ref.offset] = element]
    IN  /\ status = "running" /\ Alive(x)
        /\ Commit(x, after)
        /\ Log([Call("at_assign", x) EXCEPT !.index = index, !.value = element], after)
        /\ ret' = Default
    /\ UNCHANGED ctor

Back(x) ==
    LET ref == back(This(x))
    IN  /\ status = "running" /\ Alive(x)
        /\ Commit(x, IF ref.aborted THEN Abort(This(x)) ELSE This(x))
        /\ ret' = IF ref.aborted \/ ~audit THEN Default ELSE m_elements[x][ref.offset]
        /\ Log(Call("back", x), IF ref.aborted THEN Abort(This(x)) ELSE This(x))
        /\ UNCHANGED ctor

BackAssign(x, element) ==
    LET ref == back(This(x))
        after == IF ref.aborted THEN Abort(This(x))
                 ELSE [This(x) EXCEPT !.m_elements[ref.offset] = element]
    IN  /\ status = "running" /\ Alive(x)
        /\ Commit(x, after)
        /\ Log([Call("back_assign", x) EXCEPT !.value = element], after)
        /\ ret' = Default
    /\ UNCHANGED ctor

\* The arguments the calls are made with.
ErasePositions == (-1) .. (Capacity + 1)
InsertPositions(x) == {nullptr, begin(This(x))}
Indices == 0 .. Capacity

Start(capacities, logging) ==
    /\ Capacity \in capacities
    /\ audit = logging
    /\ ctor = [x \in Instances |-> "none"]
    /\ m_elements = [x \in Instances |-> [i \in Slots |-> Default]]
    /\ m_size = [x \in Instances |-> 0]
    /\ status = "running"
    /\ ret = Default
    /\ call = NoCall
    /\ pre_elements = [i \in Slots |-> Default]
    /\ pre_size = 0
    /\ pushed = [x \in Instances |-> [valid |-> FALSE, log |-> <<>>]]
    /\ cleared = [x \in Instances |-> -1]

\* One object, every call logged.
Init == Start(1 .. MaxCapacity, TRUE)

Next ==
    \E x \in {"a"} :
        \/ DefaultConstruct(x)
        \/ \E source \in Sources : RangeConstruct(x, source)
        \/ \E source \in Sources : Assign(x, source)
        \/ \E source \in Sources : \E position \in InsertPositions(x) : Insert(x, position, source)
        \/ \E element \in Values : PushBack(x, element)
        \/ \E position \in ErasePositions : Erase(x, position)
        \/ Clear(x)
        \/ \E index \in Indices : At(x, index)
        \/ \E index \in Indices : \E element \in Values : AtAssign(x, index, element)
        \/ Back(x)
        \/ \E element \in Values : BackAssign(x, element)

Spec == Init /\ [][Next]_vars

\* Two objects of the same type, one of which may be copy-constructed from the other.
InitCopy == Start(1 .. MaxCopyCapacity, FALSE)

NextCopy ==
    \E x \in Instances :
        \/ DefaultConstruct(x)
        \/ \E source \in CopySources : RangeConstruct(x, source)
        \/ \E other \in Instances \ {x} : CopyConstruct(x, other)
        \/ \E source \in CopySources : Assign(x, source)
        \/ \E source \in CopySources : \E position \in InsertPositions(x) : Insert(x, position, source)
        \/ \E element \in Values : PushBack(x, element)
        \/ \E position \in ErasePositions : Erase(x, position)
        \/ Clear(x)
        \/ \E index \in Indices : At(x, index)
        \/ \E index \in Indices : \E element \in Values : AtAssign(x, index, element)
        \/ Back(x)
        \/ \E element \in Values : BackAssign(x, element)

SpecCopy == InitCopy /\ [][NextCopy]_vars

---------------------------------------------------------------------------
\* The properties.  Those of Spec speak of the last call through the call log.

Self == This(call.self)
Before == Object(pre_elements, pre_size)
Returned(name) == call.name = name /\ status = "running"
Terminated(name) == call.name = name /\ status = "aborted"
Bulk == {"construct", "assign", "insert"}
ErasedIndex == distance(begin(Before), call.position)
RemoveAt(s, i) == [j \in 1 .. (Len(s) - 1) |-> IF j < i THEN s[j] ELSE s[j + 1]]

\* C1: in every reachable state, also the one a failed assertion ends the run in,
\* every object's element count is at least 0 and at most Capacity.
C1_CountWithinCapacity ==
    \A x \in Instances : 0 <= m_size[x] /\ m_size[x] <= Capacity

\* A full container, on which a further push_back has just been refused.
C1_Witness ==
    /\ Terminated("push_back")
    /\ m_size[call.self] = Capacity
    /\ Capacity = MaxCapacity

\* C2: a bulk construction, assign or insert from a source longer than the remaining
\* capacity returns without terminating, leaves size() = Capacity, and has appended
\* exactly the leading source elements that fit, in source order.
C2_BulkTruncatesSilently ==
    (call.name \in Bulk /\ Len(call.source) > Capacity - pre_size) =>
        /\ status = "running"
        /\ size(Self) = capacity(Self)
        /\ Traverse(Self) = Traverse(Before) \o SubSeq(call.source, 1, Capacity - pre_size)

\* C3: push_back on a full container terminates the run, and neither the storage
\* nor the count has changed when it does.
C3_PushBackOnFullIsFatal ==
    (call.name = "push_back" /\ pre_size = Capacity) =>
        /\ status = "aborted"
        /\ m_elements[call.self] = pre_elements
        /\ m_size[call.self] = pre_size

\* push_back has been called on a container filled by three earlier calls.
C3_Witness ==
    /\ Terminated("push_back")
    /\ pre_size = Capacity
    /\ Capacity = 3
    /\ pre_elements[0] # pre_elements[1]

C5_EraseRemovesOne ==
    (call.name = "erase" /\ ErasedIndex < pre_size) =>
        /\ status = "running"
        /\ size(Self) = pre_size - 1
        /\ Traverse(Self) = RemoveAt(Traverse(Before), ErasedIndex + 1)

\* The first of three elements has been erased, and the two after it moved down.
C5_Witness ==
    /\ Returned("erase")
    /\ pre_size = 3
    /\ ErasedIndex = 0
    /\ pre_elements[0] # pre_elements[1]
    /\ pre_elements[1] # pre_elements[2]

\* C6: erase at a position of index >= size() returns without terminating and leaves
\* size() and the elements at [0, size()) as they were.
C6_EraseOutOfRangeIsNoOp ==
    (call.name = "erase" /\ ErasedIndex >= pre_size) =>
        /\ status = "running"
        /\ size(Self) = pre_size
        /\ Traverse(Self) = Traverse(Before)

\* erase(end()) has been called on a container holding elements.
C6_Witness ==
    /\ Returned("erase")
    /\ pre_size >= 1
    /\ call.position = end(Before)

\* C7: at(index) with index >= size() terminates the run, also when the slot is inside
\* the storage and holds a stale value; with index < size() it returns the element at
\* that logical position.
C7_AtIsBoundsChecked ==
    /\ (call.name \in {"at", "at_assign"} /\ call.index >= pre_size) =>
            /\ status = "aborted"
            /\ m_elements[call.self] = pre_elements
            /\ m_size[call.self] = pre_size
    /\ (call.name = "at" /\ call.index < pre_size) =>
            /\ status = "running"
            /\ ret = Traverse(Before)[call.index + 1]
    /\ (call.name = "at_assign" /\ call.index < pre_size) =>
            /\ status = "running"
            /\ Traverse(Self)[call.index + 1] = call.value

\* at() has been called on a slot inside the storage that holds a stale value.
C7_Witness ==
    /\ Terminated("at")
    /\ pre_size <= call.index
    /\ call.index < Capacity
    /\ pre_elements[call.index] # Default

\* C8: clear() sets the count to 0 and leaves the storage as it was; one push_back(v)
\* after it gives size() = 1 and at(0) = v, whatever the container held.
C8_ClearThenPushBack ==
    /\ call.name = "clear" =>
            /\ status = "running"
            /\ size(Self) = 0
            /\ m_elements[call.self] = pre_elements
    /\ (call.name = "push_back" /\ call.cleared >= 0) =>
            /\ status = "running"
            /\ size(Self) = 1
            /\ ~at(Self, 0).aborted
            /\ Self.m_elements[at(Self, 0).offset] = call.value

\* A full container has been cleared and then pushed a value its first slot did not
\* hold; the stale values are still behind it.
C8_Witness ==
    /\ Returned("push_back")
    /\ call.cleared = Capacity
    /\ Capacity = 3
    /\ pre_elements[0] # call.value
    /\ m_elements[call.self][1] # Default
    /\ m_elements[call.self][2] # Default

\* The receiver of the step's call, after the call.
Copied == Object(m_elements'[call'.self], m_size'[call'.self])

\* C9: a copy-constructed container has the size and elements of the one it was copied
\* from, and no call on one object changes the size or the elements of another.
C9_CopyIsIndependent ==
    [][/\ call'.name = "copy" =>
            \A other \in Instances \ {call'.self} :
                ctor[other] # "none" =>
                    /\ size(Copied) = size(This(other))
                    /\ Traverse(Copied) = Traverse(This(other))
       /\ \A other \in Instances \ {call'.self} :
            /\ m_elements'[other] = m_elements[other]
            /\ m_size'[other] = m_size[other]]_vars

\* The copy has been changed since it was made, and the original still holds two
\* elements the copy no longer has.
C9_Witness ==
    /\ ctor["a"] # "copy"
    /\ ctor["b"] = "copy"
    /\ call.self = "b"
    /\ status = "running"
    /\ m_size["a"] = 2
    /\ m_size["b"] = 1
    /\ m_elements["a"][0] # m_elements["b"][0]

\* C10: insert(position, first, last) and assign(first, last) with a source that fits
\* leave the existing elements in place, followed by the source elements in source
\* order, for every position: assign does not replace the contents.
C10_InsertAppends ==
    (call.name \in {"insert", "assign"} /\ pre_size + Len(call.source) <= Capacity) =>
        /\ status = "running"
        /\ size(Self) = pre_size + Len(call.source)
        /\ Traverse(Self) = Traverse(Before) \o call.source

\* Two elements have been inserted with position = begin() into a container holding one.
C10_Witness ==
    /\ Returned("insert")
    /\ call.position = begin(Before)
    /\ pre_size = 1
    /\ Len(call.source) = 2
    /\ call.source[1] # call.source[2]
    /\ pre_elements[0] # call.source[2]

=============================================================================
